---- MODULE Spec2Model ----
(***************************************************************************)
(* Model of internal/provider/helper.go of terraform-provider-cockroach:   *)
(* tryPortForwardIfNeeded (guard, interrupt watcher goroutine, setup       *)
(* goroutine, completion select) and the pure helpers getPodName and       *)
(* mapToSelectorStr.                                                       *)
(*                                                                         *)
(* Strings the code computes on (label keys, label values, selectors) are  *)
(* sequences of one-character strings.  An error value is the sequence of  *)
(* its message parts, outermost first: fmt.Errorf("m: %w", e) is <<m>> \o e.*)
(* A diag.Diagnostics is the sequence of the errors it carries.            *)
(***************************************************************************)
EXTENDS Integers, Sequences, FiniteSets, TLC

(* ------------------------------ bounds --------------------------------- *)

\* largest label mapping of a service in an orchestration run
MaxSvcLabels == 1
\* largest candidate list returned by the listing in an orchestration run
MaxListed == 1
\* largest label mapping given to mapToSelectorStr on its own
MaxLabels == 3
\* longest candidate list given to getPodName on its own
MaxPods == 2
\* termination signals the environment delivers
MaxSignals == 2
\* largest number of bound ports the tunnel reports
MaxPorts == 2
\* calls made with no active connection configuration
MaxCalls == 3

(* --------------------------- program constants ------------------------- *)

\* errCh := make(chan error, 1)
ErrChCap == 1
\* sigs := make(chan os.Signal, 1)
SigsCap == 1

(* ------------------------------ value sets ----------------------------- *)

\* v1.PodPhase
PodPhases == {"Pending", "Running", "Succeeded", "Failed", "Unknown"}
PodRunning == "Running"
PodNames == {"p0", "p1"}
Pod == [name : PodNames, phase : PodPhases]

\* valid label tokens: no "=" and no "," in a key or a value, keys not empty
LabelKeys == {<<"a">>, <<"b">>, <<"c">>, <<"a", "b">>}
LabelValues == {<<>>, <<"x">>, <<"x", "y">>}
\* label keys and values a service carries in an orchestration run
SvcLabelKeys == {<<"a">>, <<"b">>}
SvcLabelValues == {<<"x">>}
\* the pods the listing returns in an orchestration run
ListedPhases == {"Pending", "Running", "Failed"}
ListedPod == [name : PodNames, phase : ListedPhases]

SeqsUpTo(S, n) == UNION {[1..k -> S] : k \in 0..n}

\* every map[string]string over keys and vals with at most n entries
MappingsOver(keys, vals, n) ==
    UNION {[D -> vals] : D \in {E \in SUBSET keys : Cardinality(E) <= n}}

\* the orders in which a range statement may visit the keys of a map
Orders(S) ==
    {o \in [1..Cardinality(S) -> S] : \A i, j \in DOMAIN o : o[i] = o[j] => i = j}

\* the nil error
NoErr == <<>>
\* fmt.Errorf without %w
Errorf(msg) == <<msg>>
\* fmt.Errorf("msg: %w", err)
Wrap(msg, err) == <<msg>> \o err

(* ---------------------------- pure helpers ----------------------------- *)

NoLivePods == Errorf("no live pods behind the service")

\* the loop of getPodName from index i on: skip what is not Running, return
\* the first Running pod's name; after the loop, the error
RECURSIVE getPodNameFrom(_, _)
getPodNameFrom(items, i) ==
    IF i > Len(items)
    THEN [name |-> "", err |-> NoLivePods]
    ELSE IF items[i].phase # PodRunning
         THEN getPodNameFrom(items, i + 1)
         ELSE [name |-> items[i].name, err |-> NoErr]

\* a getPodName that forgets the phase test
getPodNameAnyPhase(pods) ==
    IF Len(pods) = 0
    THEN [name |-> "", err |-> NoLivePods]
    ELSE [name |-> pods[1].name, err |-> NoErr]

getPodName(pods) == getPodNameFrom(pods, 1)

\* fmt.Sprintf("%s=%s", k, v)
SprintfKV(k, v) == k \o <<"=">> \o v

\* the loop of mapToSelectorStr over the keys in the order the range visits them
RECURSIVE selectorLoop(_, _, _, _)
selectorLoop(msel, order, i, selector) ==
    IF i > Len(order)
    THEN selector
    ELSE LET sep == IF selector # <<>> THEN selector \o <<",">> ELSE selector
         IN  selectorLoop(msel, order, i + 1, sep \o SprintfKV(order[i], msel[order[i]]))

\* a mapToSelectorStr that writes the comma after each clause
RECURSIVE selectorLoopTrailing(_, _, _, _)
selectorLoopTrailing(msel, order, i, selector) ==
    IF i > Len(order)
    THEN selector
    ELSE selectorLoopTrailing(msel, order, i + 1,
             selector \o SprintfKV(order[i], msel[order[i]]) \o <<",">>)

mapToSelectorStrTrailing(msel, order) == selectorLoopTrailing(msel, order, 1, <<>>)

mapToSelectorStr(msel, order) == selectorLoop(msel, order, 1, <<>>)

\* a diag.FromErr that drops the error
FromErrDropped(err) == <<>>

\* a diag.FromErr without the nil test
FromErrNoNilTest(err) == <<err>>

\* diag.FromErr: no diagnostics for the nil error, else one error diagnostic
FromErr(err) == IF err = NoErr THEN <<>> ELSE <<err>>

(* -------------------------------- state -------------------------------- *)

VARIABLES
    kubeConfig,     \* cockroachClient.kubeConn.kubeConfig: "nil" or "active"
    callPc,         \* the calling goroutine: "idle", "gate" (at the select), "returned"
    result,         \* the diag.Diagnostics of the last return
    gateBranch,     \* the case the select took: "none", "ready", "err"
    calls,          \* calls that have returned
    notified,       \* signal.Notify(sigs, ...) was called
    sigs,           \* signals buffered in sigs
    delivered,      \* termination signals delivered so far
    watcherPc,      \* interrupt watcher: "none", "waiting", "closing", "done"
    stopClosed,     \* stopCh is closed
    stopCloses,     \* close(stopCh) executed so far
    callerClosed,   \* the caller has executed its close(stopCh)
    panicked,       \* the process died of a close of a closed channel
    readyClosed,    \* readyCh is closed
    errBuf,         \* the buffer of errCh
    errClosed,      \* errCh is closed
    errSent,        \* values sent on errCh so far
    setupPc,        \* the setup goroutine's position
    hung,           \* the setup goroutine is inside a collaborator call that does not return
    svcSelector,    \* svc.Spec.Selector
    selector,       \* selector
    pods,           \* pods.Items
    livePod,        \* livePod
    pendingErr,     \* the error the failing step is about to send
    failedStep,     \* the step of the sequence (1..10) that failed, 0 if none
    invoked,        \* the collaborator operations invoked, in order
    listSelector,   \* the LabelSelector the listing was invoked with
    listed,         \* how the listing returned: "no" (not yet), "ok", "err"
    actualPorts,    \* len(actualPorts)
    pfPc,           \* the tunnel: "none", "created", "running", "ready", "failed", "stopped"
    pfTarget        \* the pod the tunnel was created against

vars == <<kubeConfig, callPc, result, gateBranch, calls, notified, sigs, delivered,
          watcherPc, stopClosed, stopCloses, callerClosed, panicked, readyClosed,
          errBuf, errClosed, errSent, setupPc, hung, svcSelector, selector, pods,
          livePod, pendingErr, failedStep, invoked, listSelector, listed,
          actualPorts, pfPc, pfTarget>>

callVars == <<callPc, result, gateBranch, calls>>
sigVars == <<notified, sigs, delivered, watcherPc>>
stopVars == <<stopClosed, stopCloses, callerClosed, panicked>>
errVars == <<errBuf, errClosed, errSent>>
setupData == <<svcSelector, selector, pods, livePod, invoked, listSelector, listed,
              actualPorts>>
failVars == <<pendingErr, failedStep>>
pfVars == <<pfPc, pfTarget>>

\* state of a process before any call, with fresh open stopCh and readyCh
Fresh ==
    /\ callPc = "idle" /\ result = <<>> /\ gateBranch = "none" /\ calls = 0
    /\ notified = FALSE /\ sigs = 0 /\ delivered = 0 /\ watcherPc = "none"
    /\ stopClosed = FALSE /\ stopCloses = 0 /\ callerClosed = FALSE
    /\ panicked = FALSE /\ readyClosed = FALSE
    /\ errBuf = <<>> /\ errClosed = FALSE /\ errSent = 0
    /\ setupPc = "none" /\ hung = FALSE
    /\ svcSelector = <<>> /\ selector = <<>> /\ pods = <<>> /\ livePod = ""
    /\ pendingErr = NoErr /\ failedStep = 0 /\ invoked = <<>>
    /\ listSelector = <<>> /\ listed = "no" /\ actualPorts = 0
    /\ pfPc = "none" /\ pfTarget = ""

Init ==
    /\ kubeConfig \in {"nil", "active"}
    /\ Fresh

(* ---------------------------- channel steps ---------------------------- *)

\* an unrecovered panic ends the process: nothing runs afterwards
Alive == ~panicked

\* close(stopCh): closing a closed channel panics
CloseStop ==
    /\ stopCloses' = stopCloses + 1
    /\ IF stopClosed
       THEN panicked' = TRUE /\ UNCHANGED stopClosed
       ELSE stopClosed' = TRUE /\ UNCHANGED panicked

\* a receive from readyCh that does not wait for the close
ReadyFiredAlways == TRUE

\* <-readyCh can proceed: nothing is ever sent on readyCh, only its close wakes a receiver
ReadyFired == readyClosed

\* a guard that takes every configuration for an active one
HasKubeConfigAlways == TRUE

\* kubeConfig != nil
HasKubeConfig == kubeConfig # "nil"

(* ------------------------ the call and its return ---------------------- *)

\* kubeConfig == nil: fall through to return nil
CallNoConfig ==
    /\ Alive /\ callPc = "idle"
    /\ ~HasKubeConfig
    /\ callPc' = "returned" /\ result' = <<>> /\ calls' = calls + 1
    /\ UNCHANGED <<kubeConfig, gateBranch, sigVars, stopVars, readyClosed, errVars,
                   setupPc, hung, setupData, failVars, pfVars>>

\* kubeConfig != nil: make errCh, register for SIGINT/SIGTERM, start the interrupt
\* watcher and the setup goroutine, and go to the select
CallActive ==
    /\ Alive /\ callPc = "idle"
    /\ HasKubeConfig
    /\ errBuf' = <<>> /\ errClosed' = FALSE /\ errSent' = 0
    /\ notified' = TRUE /\ watcherPc' = "waiting"
    /\ setupPc' = "getService"
    /\ callPc' = "gate"
    /\ UNCHANGED <<kubeConfig, result, gateBranch, calls, sigs, delivered, stopVars,
                   readyClosed, hung, setupData, failVars, pfVars>>

\* the caller calls again for a resource with no active connection configuration
CallerCallsAgain ==
    /\ Alive /\ callPc = "returned"
    /\ kubeConfig = "nil"
    /\ calls < MaxCalls
    /\ callPc' = "idle"
    /\ UNCHANGED <<kubeConfig, result, gateBranch, calls, sigVars, stopVars, readyClosed,
                   errVars, setupPc, hung, setupData, failVars, pfVars>>

\* case <-readyCh: break, then return nil
GateReady ==
    /\ Alive /\ callPc = "gate"
    /\ ReadyFired
    /\ gateBranch' = "ready" /\ result' = <<>>
    /\ callPc' = "returned" /\ calls' = calls + 1
    /\ UNCHANGED <<kubeConfig, sigVars, stopVars, readyClosed, errVars, setupPc, hung,
                   setupData, failVars, pfVars>>

\* a receive that sees the close before the buffered value
RecvErrClosedFirst == IF errClosed THEN NoErr ELSE Head(errBuf)

\* the value <-errCh yields: the buffered value if there is one, also on a
\* closed channel; nil from the closed and empty channel
RecvErr == IF errBuf # <<>> THEN Head(errBuf) ELSE NoErr

\* case err := <-errCh: return diag.FromErr(err).  A buffered value is received
\* first; from the closed and empty channel the receive yields nil
GateErr ==
    /\ Alive /\ callPc = "gate"
    /\ errBuf # <<>> \/ errClosed
    /\ result' = FromErr(RecvErr)
    /\ errBuf' = (IF errBuf # <<>> THEN Tail(errBuf) ELSE errBuf)
    /\ gateBranch' = "err"
    /\ callPc' = "returned" /\ calls' = calls + 1
    /\ UNCHANGED <<kubeConfig, sigVars, stopVars, readyClosed, errClosed, errSent,
                   setupPc, hung, setupData, failVars, pfVars>>

\* the caller, back from the call, closes the stopCh it supplied to end the session
CallerCancel ==
    /\ Alive /\ callPc = "returned"
    /\ kubeConfig = "active"
    /\ ~callerClosed
    /\ callerClosed' = TRUE
    /\ CloseStop
    /\ UNCHANGED <<kubeConfig, callVars, sigVars, readyClosed, errVars, setupPc, hung,
                   setupData, failVars, pfVars>>

(* --------------------------- interrupt watcher ------------------------- *)

\* SIGINT or SIGTERM reaches the process: the runtime sends to sigs without
\* blocking and drops the signal when the buffer is full
Signal ==
    /\ Alive /\ notified
    /\ delivered < MaxSignals
    /\ delivered' = delivered + 1
    /\ sigs' = (IF sigs < SigsCap THEN sigs + 1 ELSE sigs)
    /\ UNCHANGED <<kubeConfig, callVars, notified, watcherPc, stopVars, readyClosed,
                   errVars, setupPc, hung, setupData, failVars, pfVars>>

\* a receive from sigs that does not wait for a signal
SigPendingAlways == TRUE

\* <-sigs can proceed: a signal is buffered in sigs
SigPending == sigs > 0

\* <-sigs; logInfo("Stopping a forward process...")
WatcherRecv ==
    /\ Alive /\ watcherPc = "waiting"
    /\ SigPending
    /\ sigs' = sigs - 1
    /\ watcherPc' = "closing"
    /\ UNCHANGED <<kubeConfig, callVars, notified, delivered, stopVars, readyClosed,
                   errVars, setupPc, hung, setupData, failVars, pfVars>>

\* a watcher that goes back to wait for the next signal
WatcherEndLoops == "waiting"

\* after close(stopCh) the watcher's function ends: it is not restarted
WatcherEnd == "done"

\* close(stopCh), and the goroutine ends
WatcherClose ==
    /\ Alive /\ watcherPc = "closing"
    /\ CloseStop
    /\ watcherPc' = WatcherEnd
    /\ UNCHANGED <<kubeConfig, callVars, notified, sigs, delivered, callerClosed,
                   readyClosed, errVars, setupPc, hung, setupData, failVars, pfVars>>

(* ---------------------------- setup goroutine -------------------------- *)

\* what the environment's collaborators can answer
SvcSelectors == MappingsOver(SvcLabelKeys, SvcLabelValues, MaxSvcLabels)
PodLists == SeqsUpTo(ListedPod, MaxListed)
\* the error a collaborator returns
Cause == <<"collaborator error">>

Running == Alive /\ ~hung

\* a failure path that returns without the send
FailWithNoSend(step, err) ==
    /\ failedStep' = step
    /\ pendingErr' = err
    /\ setupPc' = "close"

\* a failure path that starts the sequence over
FailWithRetry(step, err) ==
    /\ failedStep' = step
    /\ pendingErr' = err
    /\ setupPc' = "getService"

\* a failure path: logError, then errCh <- err, then return
FailWith(step, err) ==
    /\ failedStep' = step
    /\ pendingErr' = err
    /\ setupPc' = "send"

\* an emptiness test that never fires
SelectorIsEmptyNever(s) == FALSE

\* selector == ""
SelectorIsEmpty(s) == s = <<>>

\* step 1: Services(nameSpace).Get
GetService ==
    /\ Running /\ setupPc = "getService"
    /\ invoked' = Append(invoked, "getService")
    /\ \/ /\ \E m \in SvcSelectors : svcSelector' = m
          /\ setupPc' = "selector"
          /\ UNCHANGED failVars
       \/ /\ FailWith(1, Wrap("failed to get Kubernetes service", Cause))
          /\ UNCHANGED svcSelector
    /\ UNCHANGED <<kubeConfig, callVars, sigVars, stopVars, readyClosed, errVars, hung,
                   selector, pods, livePod, listSelector, listed, actualPorts, pfVars>>

\* step 2: selector := mapToSelectorStr(svc.Spec.Selector); the range visits the
\* keys in an order the language leaves open
BuildSelector ==
    /\ Running /\ setupPc = "selector"
    /\ \E order \in Orders(DOMAIN svcSelector) :
         LET s == mapToSelectorStr(svcSelector, order)
         IN  /\ selector' = s
             /\ IF SelectorIsEmpty(s)
                THEN FailWith(2, Errorf("service has no selector"))
                ELSE setupPc' = "listPods" /\ UNCHANGED failVars
    /\ UNCHANGED <<kubeConfig, callVars, sigVars, stopVars, readyClosed, errVars, hung,
                   svcSelector, pods, livePod, invoked, listSelector, listed, actualPorts, pfVars>>

\* step 3: Pods(svc.Namespace).List with LabelSelector: selector, then len(pods.Items) == 0
ListPods ==
    /\ Running /\ setupPc = "listPods"
    /\ invoked' = Append(invoked, "listPods")
    /\ listSelector' = selector
    /\ \/ /\ FailWith(3, Wrap("failed to get pod list", Cause))
          /\ listed' = "err"
          /\ UNCHANGED pods
       \/ \E items \in PodLists :
            /\ pods' = items
            /\ listed' = "ok"
            /\ IF Len(items) = 0
               THEN FailWith(3, Errorf("no CockroachDB pods found"))
               ELSE setupPc' = "pickPod" /\ UNCHANGED failVars
    /\ UNCHANGED <<kubeConfig, callVars, sigVars, stopVars, readyClosed, errVars, hung,
                   svcSelector, selector, livePod, actualPorts, pfVars>>

\* step 4: livePod, err := getPodName(pods)
PickPod ==
    /\ Running /\ setupPc = "pickPod"
    /\ invoked' = Append(invoked, "pickPod")
    /\ LET r == getPodName(pods)
       IN  /\ livePod' = r.name
           /\ IF r.err # NoErr
              THEN FailWith(4, Wrap("failed to get live pod", r.err))
              ELSE setupPc' = "parseURL" /\ UNCHANGED failVars
    /\ UNCHANGED <<kubeConfig, callVars, sigVars, stopVars, readyClosed, errVars, hung,
                   svcSelector, selector, pods, listSelector, listed, actualPorts, pfVars>>

\* step 5: url.Parse of host, namespace and livePod; it fails on a malformed host
ParseURL ==
    /\ Running /\ setupPc = "parseURL"
    /\ \/ setupPc' = "roundTripper" /\ UNCHANGED failVars
       \/ FailWith(5, Wrap("failed to construct server URL", Cause))
    /\ UNCHANGED <<kubeConfig, callVars, sigVars, stopVars, readyClosed, errVars, hung,
                   setupData, pfVars>>

\* step 6: spdy.RoundTripperFor(kubeConfig)
RoundTripper ==
    /\ Running /\ setupPc = "roundTripper"
    /\ invoked' = Append(invoked, "roundTripper")
    /\ \/ setupPc' = "newPF" /\ UNCHANGED failVars
       \/ FailWith(6, Wrap("failed to create round tripper", Cause))
    /\ UNCHANGED <<kubeConfig, callVars, sigVars, stopVars, readyClosed, errVars, hung,
                   svcSelector, selector, pods, livePod, listSelector, listed, actualPorts, pfVars>>

\* step 7: spdy.NewDialer and portforward.NewOnAddresses on 127.0.0.1 with stopCh, readyCh
NewPF ==
    /\ Running /\ setupPc = "newPF"
    /\ invoked' = Append(invoked, "newPF")
    /\ \/ /\ pfPc' = "created" /\ pfTarget' = livePod
          /\ setupPc' = "forward"
          /\ UNCHANGED failVars
       \/ /\ FailWith(7, Wrap("failed to create port-forward", Cause))
          /\ UNCHANGED pfVars
    /\ UNCHANGED <<kubeConfig, callVars, sigVars, stopVars, readyClosed, errVars, hung,
                   svcSelector, selector, pods, livePod, listSelector, listed, actualPorts>>

\* step 8: go pf.ForwardPorts()
GoForward ==
    /\ Running /\ setupPc = "forward"
    /\ invoked' = Append(invoked, "forward")
    /\ pfPc' = "running"
    /\ setupPc' = "waitReady"
    /\ UNCHANGED <<kubeConfig, callVars, sigVars, stopVars, readyClosed, errVars, hung,
                   svcSelector, selector, pods, livePod, listSelector, listed, actualPorts,
                   failVars, pfTarget>>

\* step 9: <-readyCh
WaitReady ==
    /\ Running /\ setupPc = "waitReady"
    /\ ReadyFired
    /\ setupPc' = "getPorts"
    /\ UNCHANGED <<kubeConfig, callVars, sigVars, stopVars, readyClosed, errVars, hung,
                   setupData, failVars, pfVars>>

\* step 10: pf.GetPorts(), then len(actualPorts) != 1
GetPorts ==
    /\ Running /\ setupPc = "getPorts"
    /\ invoked' = Append(invoked, "getPorts")
    /\ \/ /\ FailWith(10, Wrap("failed to get port-forward ports", Cause))
          /\ UNCHANGED actualPorts
       \/ \E n \in 0..MaxPorts :
            /\ actualPorts' = n
            /\ IF n # 1
               THEN FailWith(10, Errorf("unexpected number of forwarded ports"))
               ELSE setupPc' = "logOK" /\ UNCHANGED failVars
    /\ UNCHANGED <<kubeConfig, callVars, sigVars, stopVars, readyClosed, errVars, hung,
                   svcSelector, selector, pods, livePod, listSelector, listed, pfVars>>

\* step 11: logInfo("Port forwarding established ..."), then the function ends
LogOK ==
    /\ Running /\ setupPc = "logOK"
    /\ setupPc' = "close"
    /\ UNCHANGED <<kubeConfig, callVars, sigVars, stopVars, readyClosed, errVars, hung,
                   setupData, failVars, pfVars>>

\* a failure path without the return after its send
AfterSendNoReturn == "send"

\* a failure path whose return runs no deferred close
AfterSendNoClose == "done"

\* the return after the send: the deferred close runs next
AfterSend == "close"

\* errCh <- err; return.  The send waits while the buffer is full and panics on
\* a closed channel
SendErr ==
    /\ Running /\ setupPc = "send"
    /\ errClosed \/ Len(errBuf) < ErrChCap
    /\ IF errClosed
       THEN panicked' = TRUE /\ UNCHANGED <<errBuf, errSent, setupPc>>
       ELSE /\ errBuf' = Append(errBuf, pendingErr)
            /\ errSent' = errSent + 1
            /\ setupPc' = AfterSend
            /\ UNCHANGED panicked
    /\ UNCHANGED <<kubeConfig, callVars, sigVars, stopClosed, stopCloses, callerClosed,
                   readyClosed, errClosed, hung, setupData, failVars, pfVars>>

\* defer close(errCh), run when the goroutine's function returns
CloseErr ==
    /\ Running /\ setupPc = "close"
    /\ IF errClosed
       THEN panicked' = TRUE /\ UNCHANGED <<errClosed, setupPc>>
       ELSE errClosed' = TRUE /\ setupPc' = "done" /\ UNCHANGED panicked
    /\ UNCHANGED <<kubeConfig, callVars, sigVars, stopClosed, stopCloses, callerClosed,
                   readyClosed, errBuf, errSent, hung, setupData, failVars, pfVars>>

\* a collaborator call of the setup goroutine that does not return (no timeout
\* is set on any of them)
CallPcs == {"getService", "listPods", "roundTripper", "newPF", "getPorts"}

Hang ==
    /\ Running /\ setupPc \in CallPcs
    /\ hung' = TRUE
    /\ invoked' = Append(invoked, setupPc)
    /\ listSelector' = (IF setupPc = "listPods" THEN selector ELSE listSelector)
    /\ UNCHANGED <<kubeConfig, callVars, sigVars, stopVars, readyClosed, errVars, setupPc,
                   svcSelector, selector, pods, livePod, listed, actualPorts,
                   failVars, pfVars>>

(* ------------------------------ the tunnel ----------------------------- *)

\* ForwardPorts has dialled and is listening: it closes readyCh
PfReady ==
    /\ Alive /\ pfPc = "running"
    /\ pfPc' = "ready"
    /\ IF readyClosed
       THEN panicked' = TRUE /\ UNCHANGED readyClosed
       ELSE readyClosed' = TRUE /\ UNCHANGED panicked
    /\ UNCHANGED <<kubeConfig, callVars, sigVars, stopClosed, stopCloses, callerClosed,
                   errVars, setupPc, hung, setupData, failVars, pfTarget>>

\* ForwardPorts returns an error before it is ready (the dial or the listen
\* failed): readyCh stays open
PfFail ==
    /\ Alive /\ pfPc = "running"
    /\ pfPc' = "failed"
    /\ UNCHANGED <<kubeConfig, callVars, sigVars, stopVars, readyClosed, errVars, setupPc,
                   hung, setupData, failVars, pfTarget>>

\* the forwarding loop, once ready, ends when stopCh is closed
PfStop ==
    /\ Alive /\ pfPc = "ready"
    /\ stopClosed
    /\ pfPc' = "stopped"
    /\ UNCHANGED <<kubeConfig, callVars, sigVars, stopVars, readyClosed, errVars, setupPc,
                   hung, setupData, failVars, pfTarget>>

(* --------------------------- specifications ---------------------------- *)

Setup ==
    \/ GetService \/ BuildSelector \/ ListPods \/ PickPod \/ ParseURL \/ RoundTripper
    \/ NewPF \/ GoForward \/ WaitReady \/ GetPorts \/ LogOK \/ SendErr \/ CloseErr

Gate == GateReady \/ GateErr

Watcher == WatcherRecv \/ WatcherClose

Next ==
    \/ CallNoConfig
    \/ CallActive
    \/ CallerCallsAgain
    \/ GateReady
    \/ GateErr
    \/ CallerCancel
    \/ Signal
    \/ WatcherRecv
    \/ WatcherClose
    \/ GetService
    \/ BuildSelector
    \/ ListPods
    \/ PickPod
    \/ ParseURL
    \/ RoundTripper
    \/ NewPF
    \/ GoForward
    \/ WaitReady
    \/ GetPorts
    \/ LogOK
    \/ SendErr
    \/ CloseErr
    \/ Hang
    \/ PfReady
    \/ PfFail
    \/ PfStop

Spec == Init /\ [][Next]_vars

\* a goroutine that can take a step is eventually scheduled
FairSpec == Spec /\ WF_vars(Setup) /\ WF_vars(Gate) /\ WF_vars(Watcher)

(* ------------------ the pure helpers on their own ---------------------- *)

\* the state of an attempt whose setup goroutine stands at pc, having invoked inv
MidSetup(pc, inv) ==
    /\ kubeConfig = "active"
    /\ callPc = "gate" /\ result = <<>> /\ gateBranch = "none" /\ calls = 0
    /\ notified = TRUE /\ sigs = 0 /\ delivered = 0 /\ watcherPc = "waiting"
    /\ stopClosed = FALSE /\ stopCloses = 0 /\ callerClosed = FALSE
    /\ panicked = FALSE /\ readyClosed = FALSE
    /\ errBuf = <<>> /\ errClosed = FALSE /\ errSent = 0
    /\ setupPc = pc /\ hung = FALSE
    /\ selector = <<>> /\ livePod = ""
    /\ pendingErr = NoErr /\ failedStep = 0 /\ invoked = inv
    /\ listSelector = <<>> /\ actualPorts = 0
    /\ pfPc = "none" /\ pfTarget = ""

\* mapToSelectorStr on every label mapping of at most MaxLabels entries
InitSelector ==
    /\ MidSetup("selector", <<"getService">>)
    /\ svcSelector \in MappingsOver(LabelKeys, LabelValues, MaxLabels)
    /\ pods = <<>> /\ listed = "no"

NextSelector == BuildSelector

SpecSelector == InitSelector /\ [][NextSelector]_vars

\* getPodName on every candidate list of at most MaxPods pods, the empty one included
InitPicker ==
    /\ MidSetup("pickPod", <<"getService", "listPods">>)
    /\ svcSelector = <<>>
    /\ pods \in SeqsUpTo(Pod, MaxPods) /\ listed = "ok"

NextPicker == PickPod

SpecPicker == InitPicker /\ [][NextPicker]_vars

(* -------------------------------- claims ------------------------------- *)

Range(f) == {f[i] : i \in DOMAIN f}

\* the message the code gives the error of each failure kind of steps 1 to 7
StepMessages(step) ==
    CASE step = 1 -> {"failed to get Kubernetes service"}
      [] step = 2 -> {"service has no selector"}
      [] step = 3 -> {"failed to get pod list", "no CockroachDB pods found"}
      [] step = 4 -> {"failed to get live pod"}
      [] step = 5 -> {"failed to construct server URL"}
      [] step = 6 -> {"failed to create round tripper"}
      [] step = 7 -> {"failed to create port-forward"}
      [] OTHER -> {}

EarlyFailure == kubeConfig = "active" /\ failedStep \in 1..7

\* C1: when one of steps 1 to 7 fails (readiness not signalled), the call
\* eventually returns under fair scheduling, and it returns exactly one error
\* diagnostic, which carries the error of the step that failed.
C1_EarlyFailureReturned ==
    /\ [](EarlyFailure /\ callPc = "returned" =>
            /\ Len(result) = 1
            /\ result[1] = pendingErr
            /\ Head(result[1]) \in StepMessages(failedStep))
    /\ (EarlyFailure ~> callPc = "returned")

C1_Witness ==
    /\ callPc = "returned" /\ failedStep = 7 /\ ~readyClosed
    /\ result = <<Wrap("failed to create port-forward", Cause)>>

\* C2: when step 10 fails (the port query errors or the port count is not one),
\* the call returns that error as a diagnostic, in every interleaving.
C2_LateFailureReturned ==
    (failedStep = 10 /\ callPc = "returned") => result = <<pendingErr>>

\* C3: at most one value is ever sent on errCh; a setup sequence that has passed
\* its failure path's send (and so one that has terminated) has sent exactly one
\* value if a step failed, and none is sent when no step failed.
C3_ExactlyOneSend ==
    /\ errSent = (IF failedStep # 0 /\ setupPc \in {"close", "done"} THEN 1 ELSE 0)
    /\ (setupPc = "done" /\ failedStep # 0 => errSent = 1)
    /\ (failedStep = 0 => errBuf = <<>>)

C3_Witness ==
    /\ setupPc = "done" /\ failedStep = 10 /\ errSent = 1
    /\ gateBranch = "ready" /\ errBuf = <<pendingErr>>

\* C4: close(stopCh) is executed at most once in the life of a session.
C4_StopClosedAtMostOnce == stopCloses <= 1

\* C5: with no active configuration every call returns success at once and
\* nothing else happens: no collaborator is invoked, no watcher, setup path or
\* tunnel is started, and stopCh, readyCh and the error channel are untouched,
\* however often the call is repeated.
C5_NoConfigNoOp ==
    kubeConfig = "nil" =>
        /\ callPc \in {"idle", "returned"}
        /\ (callPc = "returned" => result = <<>> /\ calls >= 1)
        /\ gateBranch = "none"
        /\ invoked = <<>>
        /\ ~notified /\ watcherPc = "none" /\ setupPc = "none" /\ pfPc = "none"
        /\ ~stopClosed /\ stopCloses = 0 /\ ~readyClosed
        /\ errBuf = <<>> /\ ~errClosed /\ errSent = 0
        /\ failedStep = 0

C5_Witness == kubeConfig = "nil" /\ callPc = "returned" /\ calls = MaxCalls

HasRunningPod == \E i \in DOMAIN pods : pods[i].phase = PodRunning

\* C6: getPodName returns the name of the first Running pod in input order when
\* there is one, and fails with the no-live-pods error and no name on the empty
\* list and on a list without a Running pod.
C6_FirstRunningPod ==
    setupPc # "pickPod" =>
        IF HasRunningPod
        THEN /\ \E i \in DOMAIN pods :
                  /\ pods[i].phase = PodRunning
                  /\ \A j \in 1..(i - 1) : pods[j].phase # PodRunning
                  /\ livePod = pods[i].name
             /\ failedStep = 0 /\ setupPc = "parseURL"
        ELSE /\ livePod = ""
             /\ failedStep = 4
             /\ pendingErr = Wrap("failed to get live pod", NoLivePods)

C6_Witness ==
    /\ pods = <<[name |-> "p0", phase |-> "Pending"], [name |-> "p1", phase |-> "Running"]>>
    /\ livePod = "p1" /\ setupPc = "parseURL"

\* the clauses of a selector string: what stands between its commas
RECURSIVE SplitFrom(_, _, _)
SplitFrom(s, i, cur) ==
    IF i > Len(s)
    THEN <<cur>>
    ELSE IF s[i] = ","
         THEN <<cur>> \o SplitFrom(s, i + 1, <<>>)
         ELSE SplitFrom(s, i + 1, Append(cur, s[i]))

Clauses(s) == IF s = <<>> THEN <<>> ELSE SplitFrom(s, 1, <<>>)

CommaCount(s) == Cardinality({i \in DOMAIN s : s[i] = ","})

\* C7: mapToSelectorStr gives the empty string for the empty mapping; for N >= 1
\* entries it gives exactly N clauses key=value, one per entry, joined by N-1
\* commas, with no leading or trailing comma, whatever the iteration order.
C7_SelectorClauses ==
    setupPc # "selector" =>
        LET N == Cardinality(DOMAIN svcSelector)
        IN  IF N = 0
            THEN selector = <<>>
            ELSE /\ Len(Clauses(selector)) = N
                 /\ CommaCount(selector) = N - 1
                 /\ selector[1] # "," /\ selector[Len(selector)] # ","
                 /\ Range(Clauses(selector)) =
                        {SprintfKV(k, svcSelector[k]) : k \in DOMAIN svcSelector}

C7_Witness ==
    /\ Cardinality(DOMAIN svcSelector) = 3
    /\ setupPc = "listPods"
    /\ selector = <<"c", "=", ",", "a", "b", "=", "x", ",", "a", "=", "x", "y">>

\* C8: the listing is never invoked with the empty selector: a service with an
\* empty label mapping fails the attempt with the no-selector error before any
\* listing; and an empty candidate list fails the attempt with the no-pods error
\* before the picker, the transport setup or the tunnel is invoked.
C8_EmptySelectorIsError ==
    /\ ("listPods" \in Range(invoked) => listSelector # <<>>)
    /\ (/\ DOMAIN svcSelector = {}
        /\ setupPc \notin {"none", "getService", "selector"}
        /\ failedStep # 1
        => /\ failedStep = 2
           /\ pendingErr = Errorf("service has no selector")
           /\ "listPods" \notin Range(invoked))
    /\ (listed = "ok" /\ pods = <<>>
        => /\ failedStep = 3
           /\ pendingErr = Errorf("no CockroachDB pods found")
           /\ Range(invoked) \cap {"pickPod", "roundTripper", "newPF", "forward"} = {})

C8_Witness ==
    /\ setupPc = "done" /\ listed = "ok" /\ pods = <<>>
    /\ result = <<Errorf("no CockroachDB pods found")>>

AllSucceeded ==
    kubeConfig = "active" /\ failedStep = 0 /\ setupPc \in {"logOK", "close", "done"}

\* C9: when every step succeeds and the tunnel reports readiness, the call
\* eventually returns, and it returns success, by the readiness case as well as
\* by the error-channel case (which then receives nil from the closed channel).
C9_SuccessReturned ==
    /\ [](AllSucceeded /\ callPc = "returned" => result = <<>>)
    /\ (AllSucceeded ~> (callPc = "returned" /\ result = <<>>))

C9_Witness ==
    AllSucceeded /\ callPc = "returned" /\ gateBranch = "err" /\ result = <<>>

\* C10: once steps 1 to 7 have succeeded, for as long as the tunnel has not
\* reported readiness the setup sequence is at step 8 or blocked at step 9, has
\* neither sent on nor closed the error channel, and the call has not returned,
\* also after an interrupt has closed stopCh.
C10_NoTimeout ==
    (pfPc # "none" /\ ~readyClosed) =>
        /\ setupPc \in {"forward", "waitReady"}
        /\ failedStep = 0
        /\ errSent = 0 /\ errBuf = <<>> /\ ~errClosed
        /\ callPc = "gate" /\ calls = 0

C10_Witness ==
    /\ pfPc = "failed" /\ ~readyClosed /\ stopClosed /\ watcherPc = "done"
    /\ setupPc = "waitReady" /\ callPc = "gate"

\* C11: the core executes close(stopCh) only in the interrupt watcher, and only
\* after a termination signal was delivered: no step of the setup sequence
\* (failing or not, its termination included) and no return of the select
\* closes stopCh, and the forwarding loop is ended only through a closed stopCh.
C11_OnlyWatcherClosesStop ==
    [][/\ (stopCloses' # stopCloses /\ callerClosed' = callerClosed
             => /\ watcherPc = "closing" /\ watcherPc' = "done"
                /\ delivered >= 1
                /\ setupPc' = setupPc /\ callPc' = callPc)
       /\ (setupPc' # setupPc \/ callPc' # callPc \/ failedStep' # failedStep
             => /\ stopClosed' = stopClosed /\ stopCloses' = stopCloses
                /\ (pfPc' = "stopped" <=> pfPc = "stopped"))
       /\ (pfPc' = "stopped" /\ pfPc # "stopped" => stopClosed)]_vars

C11_Witness ==
    /\ callPc = "returned" /\ result # <<>> /\ setupPc = "done" /\ failedStep = 3
    /\ ~stopClosed /\ stopCloses = 0 /\ delivered = 0

\* the close(stopCh) the interrupt watcher has executed
WatcherCloses == stopCloses - (IF callerClosed THEN 1 ELSE 0)

\* C12: an attempt with an active configuration has one interrupt watcher; it
\* does nothing before a termination signal is delivered, then closes stopCh
\* exactly once and ends, however many signals follow; the watcher and the
\* signals alone never close stopCh twice, and an interrupt during the call
\* does not crash the setup sequence.
C12_WatcherFiresOnce ==
    /\ (kubeConfig = "active" /\ callPc # "idle" <=> watcherPc # "none")
    /\ (delivered = 0 => watcherPc \in {"none", "waiting"})
    /\ (watcherPc \in {"none", "waiting", "closing"} => WatcherCloses = 0)
    /\ (watcherPc = "done" => WatcherCloses = 1 /\ stopClosed)
    /\ (~callerClosed => ~panicked /\ stopCloses <= 1)
    /\ (callPc = "gate" => ~panicked)

C12_Witness ==
    /\ delivered = MaxSignals /\ sigs = 1
    /\ watcherPc = "done" /\ stopCloses = 1 /\ stopClosed /\ ~panicked
    /\ ~readyClosed /\ setupPc = "roundTripper" /\ callPc = "gate"

\* the collaborator operations of steps 1 to 10, in the order of the sequence
OpOrder ==
    <<"getService", "listPods", "pickPod", "roundTripper", "newPF", "forward", "getPorts">>

\* how many operations have been invoked when the given step fails
OpsThrough(step) ==
    CASE step \in {1, 2} -> 1
      [] step = 3 -> 2
      [] step \in {4, 5} -> 3
      [] step = 6 -> 4
      [] step = 7 -> 5
      [] step = 10 -> 7
      [] OTHER -> 0

\* C13: the operations of an attempt are invoked in the order of the steps,
\* each at most once; after the first failing step none is invoked any more;
\* the candidate list is fetched at most once, at most one candidate is chosen,
\* and a tunnel is only created against a pod that is Running in that list.
C13_StepsInOrderOnce ==
    /\ Len(invoked) <= Len(OpOrder)
    /\ invoked = SubSeq(OpOrder, 1, Len(invoked))
    /\ failedStep \in {0, 1, 2, 3, 4, 5, 6, 7, 10}
    /\ (failedStep # 0 =>
          /\ Len(invoked) = OpsThrough(failedStep)
          /\ setupPc \in {"send", "close", "done"})
    /\ (listed = "no" => pods = <<>>)
    /\ (livePod # "" => "pickPod" \in Range(invoked))
    /\ (pfPc # "none" =>
          /\ pfTarget = livePod
          /\ \E i \in DOMAIN pods : pods[i].name = pfTarget /\ pods[i].phase = PodRunning)
    /\ (pfPc = "none" => pfTarget = "")

C13_Witness ==
    /\ setupPc = "done" /\ failedStep = 0 /\ invoked = OpOrder
    /\ pods = <<[name |-> "p1", phase |-> "Running"]>> /\ pfTarget = "p1"
    /\ pfPc = "stopped"

\* C14: whenever the setup sequence stands at its send, errCh (capacity one) is
\* empty and open, so the send completes whether or not the select is still
\* waiting; and under fair scheduling a setup sequence with a failed step does
\* not stay at its send: it terminates, unless the process dies first.
C14_SendNeverBlocks ==
    /\ [](setupPc = "send" => Len(errBuf) < ErrChCap /\ errBuf = <<>> /\ ~errClosed)
    /\ (failedStep # 0 ~> (setupPc = "done" \/ panicked))

C14_Witness ==
    /\ setupPc = "done" /\ failedStep = 10 /\ errBuf = <<pendingErr>>
    /\ callPc = "returned" /\ gateBranch = "ready" /\ ~panicked /\ callerClosed

\* C15: with an active configuration the call returns success only if readyCh
\* has been closed or the setup sequence has ended without a failing step; it
\* never returns success for an attempt that failed at one of steps 1 to 7, and
\* a return by the error-channel case after a failed step carries the sent
\* error: the buffered error is received before the close can be observed.
C15_SuccessOnlyIfReady ==
    /\ (kubeConfig = "active" /\ callPc = "returned" /\ result = <<>>
          => readyClosed \/ (setupPc = "done" /\ failedStep = 0))
    /\ (failedStep \in 1..7 /\ callPc = "returned" => result # <<>> /\ gateBranch = "err")
    /\ (callPc = "returned" /\ gateBranch = "err" /\ failedStep # 0
          => result = <<pendingErr>>)

C15_Witness ==
    /\ kubeConfig = "active" /\ callPc = "returned" /\ result = <<>>
    /\ failedStep = 10 /\ readyClosed /\ setupPc = "send"

\* C16: errCh is closed exactly once per attempt, by the setup sequence as it
\* terminates, after a success as after a failure; nothing is sent on it once it
\* is closed and it stays closed; so no send on the closed channel and no second
\* close of it happens: the only panic of a run is the second close of stopCh.
C16_ErrChClosedOnce ==
    /\ [](/\ (errClosed <=> setupPc = "done")
          /\ (setupPc \in {"send", "close"} => ~errClosed)
          /\ (errClosed => errSent = (IF failedStep # 0 THEN 1 ELSE 0))
          /\ (panicked => stopCloses = 2 /\ callerClosed))
    /\ [][/\ (errClosed => errClosed' /\ errSent' = errSent /\ setupPc' = "done")
          /\ (errClosed' /\ ~errClosed => setupPc = "close" /\ setupPc' = "done")]_vars

C16_Witness ==
    /\ errClosed /\ setupPc = "done" /\ failedStep = 2 /\ errSent = 1
    /\ callPc = "returned" /\ errBuf = <<>> /\ ~panicked

====
